---------------------------- MODULE Spec2Model ----------------------------
(***************************************************************************)
(* Billing core of the supermarket system: DatabaseManager (database.py),   *)
(* the data records (models.py), BillingService.create_bill and            *)
(* get_daily_sales_summary (billing_service.py), the low-stock alerts and  *)
(* the quantity updates of InventoryService (inventory_service.py), and    *)
(* the handlers of POST /bills, POST /inventory/check-alerts and           *)
(* PUT /products/{product_id} (api.py).                                    *)
(*                                                                         *)
(* The two JSON files are the persistent state.  A file is a record        *)
(* [st, data]: st is "ok" (present and parseable), "absent", "corrupt"     *)
(* (present, truncated by a failed write) or "unreadable" (present with    *)
(* its records, but the load raises); data is the content on disk.         *)
(*                                                                         *)
(* Money is counted in cents and a tax rate in percent, so price * qty     *)
(* and total * rate are exact integers for the catalog used here; binary   *)
(* floating-point rounding is not modelled.                                *)
(***************************************************************************)
EXTENDS Integers, Sequences, FiniteSets, TLC

VARIABLES products_file, bills_file, call, ret, log

vars == <<products_file, bills_file, call, ret, log>>

-----------------------------------------------------------------------------
(* Bounds of the model *)

\* most units of one product the catalog holds
MaxQty == 2
\* most entries in one items_purchased mapping
MaxItems == 2
\* create_bill calls are explored while bill history is shorter than this
MaxBills == 2

-----------------------------------------------------------------------------
(* Input domains *)

\* identifiers of the catalog's products
ProductIds == {"gro001", "cld001"}
\* an identifier that no product has
UnknownIds == {"unknown_id"}
\* what uuid4()[:8] may yield
BillIds == {"1A2B3C4D", "5E6F7A8B"}
\* what datetime.now() may yield
Datetimes == {<<2025, 1, 1>>}

None == "None"

EmptyDict == [k \in {} |-> k]

\* dict.get(key, default)
Get(d, key, default) == IF key \in DOMAIN d THEN d[key] ELSE default

\* customer_info dicts; the email key is optional
CustomerInfos == { [name |-> "A", phone |-> "5550000"] }

\* items_purchased: a dict, i.e. distinct keys in insertion order
IsDict(items) == \A i, j \in 1..Len(items) : i # j => items[i][1] # items[j][1]

\* the dicts of at most MaxItems entries over the given (id, quantity) pairs
DictsOver(entries) ==
    { items \in UNION { [1..n -> entries] : n \in 0..MaxItems } : IsDict(items) }

\* requests as the interface asks for them: strictly positive quantities,
\* of known and unknown identifiers
PositiveQtys == 1..MaxQty

ItemsPurchased == DictsOver((ProductIds \X PositiveQtys) \cup (UnknownIds \X {1}))

\* requests of one unit per identifier
UnitItemsPurchased == DictsOver((ProductIds \cup UnknownIds) \X {1})

\* requests with any quantity, zero and negative included
AnyQtys == (0 - 1)..MaxQty

AnyItemsPurchased == DictsOver((ProductIds \X AnyQtys) \cup (UnknownIds \X {1}))

-----------------------------------------------------------------------------
(* models.py *)

Product(id, name, category, price, quantity, min_stock_level, tax_rate) ==
    [id |-> id, name |-> name, category |-> category, price |-> price,
     quantity |-> quantity, min_stock_level |-> min_stock_level,
     tax_rate |-> tax_rate]

Product_to_dict(p) ==
    [id |-> p.id, name |-> p.name, category |-> p.category, price |-> p.price,
     quantity |-> p.quantity, min_stock_level |-> p.min_stock_level,
     tax_rate |-> p.tax_rate]

Product_from_dict(d) ==
    Product(d.id, d.name, d.category, d.price, d.quantity, d.min_stock_level,
            d.tax_rate)

\* a customer record that leaves the name out
Customer_nameless(name, phone, email) == [name |-> "", phone |-> phone, email |-> email]

Customer(name, phone, email) == [name |-> name, phone |-> phone, email |-> email]

Customer_to_dict(c) == [name |-> c.name, phone |-> c.phone, email |-> c.email]

BillItem(product_id, product_name, quantity, unit_price, total_price, tax_amount) ==
    [product_id |-> product_id, product_name |-> product_name,
     quantity |-> quantity, unit_price |-> unit_price,
     total_price |-> total_price, tax_amount |-> tax_amount]

BillItem_to_dict(it) ==
    [product_id |-> it.product_id, product_name |-> it.product_name,
     quantity |-> it.quantity, unit_price |-> it.unit_price,
     total_price |-> it.total_price, tax_amount |-> it.tax_amount]

Bill(id, customer, items, subtotal, tax_amount, total_amount, created_at, status) ==
    [id |-> id, customer |-> customer, items |-> items, subtotal |-> subtotal,
     tax_amount |-> tax_amount, total_amount |-> total_amount,
     created_at |-> created_at, status |-> status]

InventoryAlert(product_id, product_name, current_quantity, min_required, suggested_order_quantity) ==
    [product_id |-> product_id, product_name |-> product_name,
     current_quantity |-> current_quantity, min_required |-> min_required,
     suggested_order_quantity |-> suggested_order_quantity]

\* datetime.isoformat() and datetime.fromisoformat(): text and back
isoformat(dt) == [iso |-> dt]

fromisoformat(s) == s.iso

Bill_to_dict(b) ==
    [id |-> b.id,
     customer |-> Customer_to_dict(b.customer),
     items |-> [i \in 1..Len(b.items) |-> BillItem_to_dict(b.items[i])],
     subtotal |-> b.subtotal,
     tax_amount |-> b.tax_amount,
     total_amount |-> b.total_amount,
     created_at |-> isoformat(b.created_at),
     status |-> b.status]

Bill_from_dict(data) ==
    LET created_at == fromisoformat(data.created_at)
        customer == Customer(data.customer.name, data.customer.phone,
                             data.customer.email)
        items == [i \in 1..Len(data.items) |->
                    BillItem(data.items[i].product_id, data.items[i].product_name,
                             data.items[i].quantity, data.items[i].unit_price,
                             data.items[i].total_price, data.items[i].tax_amount)]
        bill_id == IF Get(data, "id", "") # "" THEN data.id
                   ELSE Get(data, "bill_id", None)
    IN  Bill(bill_id, customer, items, data.subtotal, data.tax_amount,
             data.total_amount, created_at, Get(data, "status", "pending"))

-----------------------------------------------------------------------------
(* database.py: DatabaseManager *)

\* A file holding parsed content.
OkFile(data) == [st |-> "ok", data |-> data]

\* A file that exists but that json.load cannot parse.
CorruptFile == [st |-> "corrupt", data |-> EmptyDict]

\* A file that exists and holds records, but whose load raises: open() or
\* json.load fails, or from_dict rejects one of the records.
UnreadableFile(data) == [st |-> "unreadable", data |-> data]

\* A file that does not exist.
AbsentFile == [st |-> "absent", data |-> EmptyDict]

\* How a write can go: it succeeds, open() raises (the file keeps its
\* content), or json.dump raises after open() truncated the file.
WriteFaults == {"open", "write"}

load_products(file) ==
    IF file.st = "ok"
    THEN [pid \in DOMAIN file.data |-> Product_from_dict(file.data[pid])]
    ELSE EmptyDict

\* What a load logs: nothing for a file that is read or that is not there,
\* an error for one that is there and cannot be read or parsed.
load_log(file, what) ==
    IF file.st \in {"ok", "absent"} THEN <<>>
    ELSE <<[level |-> "error", text |-> "Error loading", what |-> what]>>

\* save_products with the except clause logging the error and not raising it again
save_products_swallowing(file, products, fault) ==
    LET data == [pid \in DOMAIN products |-> Product_to_dict(products[pid])]
    IN  CASE fault = "open" -> [file |-> file, raised |-> FALSE]
          [] fault = "write" -> [file |-> CorruptFile, raised |-> FALSE]
          [] OTHER -> [file |-> OkFile(data), raised |-> FALSE]

\* save_products lets the exception through: the result says whether it raised.
save_products(file, products, fault) ==
    LET data == [pid \in DOMAIN products |-> Product_to_dict(products[pid])]
    IN  CASE fault = "open" -> [file |-> file, raised |-> TRUE]
          [] fault = "write" -> [file |-> CorruptFile, raised |-> TRUE]
          [] OTHER -> [file |-> OkFile(data), raised |-> FALSE]

\* update_product writing the given product without reading the others first
update_product_alone(file, product, fault) ==
    save_products(file, (product.id :> product), fault)

update_product(file, product, fault) ==
    LET products == load_products(file)
    IN  save_products(file, (product.id :> product) @@ products, fault)

load_bills(file) ==
    IF file.st = "ok"
    THEN [i \in 1..Len(file.data) |-> Bill_from_dict(file.data[i])]
    ELSE <<>>

save_bills(file, bills, fault) ==
    LET data == [i \in 1..Len(bills) |-> Bill_to_dict(bills[i])]
    IN  CASE fault = "open" -> [file |-> file, raised |-> TRUE]
          [] fault = "write" -> [file |-> CorruptFile, raised |-> TRUE]
          [] OTHER -> [file |-> OkFile(data), raised |-> FALSE]

\* add_bill writing the new bill without reading the stored ones first
add_bill_alone(file, bill, fault) == save_bills(file, <<bill>>, fault)

add_bill(file, bill, fault) ==
    LET bills == load_bills(file)
    IN  save_bills(file, Append(bills, bill), fault)

RECURSIVE KeysOf(_)
\* The keys of a dict as a list.  The key order of a JSON file is not
\* modelled: the order is an arbitrary fixed one.
KeysOf(keys) ==
    IF keys = {} THEN <<>>
    ELSE LET k == CHOOSE k \in keys : TRUE IN <<k>> \o KeysOf(keys \ {k})

\* list(d.values())
values(d) == [i \in 1..Len(KeysOf(DOMAIN d)) |-> d[KeysOf(DOMAIN d)[i]]]

get_all_products(file) == values(load_products(file))

\* products.get(product_id): the product, or None
get_product_by_id(file, product_id) ==
    LET products == load_products(file)
    IN  IF product_id \in DOMAIN products
        THEN [kind |-> "Product", product |-> products[product_id]]
        ELSE [kind |-> "None"]

add_product(file, product, fault) ==
    LET products == load_products(file)
    IN  save_products(file, (product.id :> product) @@ products, fault)

\* delete_product saving an empty catalog once the identifier is found
delete_product_clearing(file, product_id, fault) ==
    LET products == load_products(file)
    IN  IF product_id \in DOMAIN products
        THEN save_products(file, EmptyDict, fault)
        ELSE [file |-> file, raised |-> FALSE]

\* delete_product writes only when the identifier is present
delete_product(file, product_id, fault) ==
    LET products == load_products(file)
    IN  IF product_id \in DOMAIN products
        THEN save_products(file,
                 [pid \in DOMAIN products \ {product_id} |-> products[pid]],
                 fault)
        ELSE [file |-> file, raised |-> FALSE]

\* the low-stock test also alerting at the minimum level itself
is_low_stock_at_minimum(product) == product.quantity <= product.min_stock_level

\* the test of line 183
is_low_stock(product) == product.quantity < product.min_stock_level

\* line 189
suggested_order_quantity_of(product) == 100 - product.quantity

RECURSIVE alerts_from(_)
\* the loop of lines 182-191 over a list of products
alerts_from(product_seq) ==
    IF product_seq = <<>> THEN <<>>
    ELSE LET product == Head(product_seq)
         IN  (IF is_low_stock(product)
              THEN <<InventoryAlert(product.id, product.name, product.quantity,
                                    product.min_stock_level,
                                    suggested_order_quantity_of(product))>>
              ELSE <<>>) \o alerts_from(Tail(product_seq))

get_low_stock_products(file) == alerts_from(values(load_products(file)))

-----------------------------------------------------------------------------
(* inventory_service.py: InventoryService *)

get_low_stock_alerts(file) == get_low_stock_products(file)

\* The check_stock_levels in force: the second definition of the class
\* (lines 132-150), which replaces the one of lines 82-103.
check_stock_levels(file) ==
    LET alerts == get_low_stock_alerts(file)
    IN  [critical |-> SelectSeq(alerts, LAMBDA a : a.current_quantity < 10),
         low |-> SelectSeq(alerts, LAMBDA a : ~(a.current_quantity < 10)
                                              /\ a.current_quantity < 50),
         normal |-> SelectSeq(alerts, LAMBDA a : ~(a.current_quantity < 50))]

-----------------------------------------------------------------------------
(* billing_service.py: BillingService.create_bill *)

\* the product lookup of line 37
product_missing(all_products, product_id) == product_id \notin DOMAIN all_products

\* the stock test testing only that some stock is left
insufficient_stock_if_empty(product, quantity) == product.quantity <= 0

\* the stock test of line 42
insufficient_stock(product, quantity) == product.quantity < quantity

\* the line total leaving the quantity out
item_total_of_one_unit(unit_price, quantity) == unit_price

\* lines 46-48
item_total_of(unit_price, quantity) == unit_price * quantity

item_tax_of(item_total, tax_rate) == (item_total * tax_rate) \div 100

\* line 64
decrement(product, quantity) ==
    [product EXCEPT !.quantity = product.quantity - quantity]

\* the total leaving the tax out
total_amount_without_tax(subtotal, total_tax) == subtotal

\* line 67
total_amount_of(subtotal, total_tax) == subtotal + total_tax

\* log records
\* the not-found message without the identifier
LogNotFound_unnamed(product_id) ==
    [level |-> "error", text |-> "Product not found", product_id |-> None]

LogNotFound(product_id) ==
    [level |-> "error", text |-> "Product not found", product_id |-> product_id]

\* the insufficient-stock message reporting the wrong attribute as available
LogInsufficient_wrong_attribute(product) ==
    [level |-> "error", text |-> "Insufficient stock for",
     product_name |-> product.name, available |-> product.min_stock_level]

LogInsufficient(product) ==
    [level |-> "error", text |-> "Insufficient stock for",
     product_name |-> product.name, available |-> product.quantity]

LogCreated(bill) ==
    [level |-> "info", text |-> "Bill created successfully", bill_id |-> bill.id]

LogSaveError(what) == [level |-> "error", text |-> "Error saving", what |-> what]

LogCreateError == [level |-> "error", text |-> "Error creating bill"]

\* The fault to apply to the n-th write of a call.
FaultAt(fault, n) == IF fault.at = n THEN fault.how ELSE "none"

\* The for loop of lines 36-65, from entry i on.  s holds the locals:
\* products (the snapshot read at line 31), bill_items, subtotal, total_tax,
\* and the products file as written so far.
RECURSIVE create_bill_loop(_, _, _, _)
create_bill_loop(items_purchased, i, s, fault) ==
    IF i > Len(items_purchased)
    THEN [s EXCEPT !.exit = "done"]
    ELSE
      LET product_id == items_purchased[i][1]
          quantity == items_purchased[i][2]
      IN
      IF product_missing(s.products, product_id)
      THEN [s EXCEPT !.exit = "return None",
                     !.log = Append(s.log, LogNotFound(product_id))]
      ELSE
        LET product == s.products[product_id] IN
        IF insufficient_stock(product, quantity)
        THEN [s EXCEPT !.exit = "return None",
                       !.log = Append(s.log, LogInsufficient(product))]
        ELSE
          LET unit_price == product.price
              item_total == item_total_of(unit_price, quantity)
              tax_amount == item_tax_of(item_total, product.tax_rate)
              bill_item == BillItem(product_id, product.name, quantity,
                                    unit_price, item_total, tax_amount)
              updated == decrement(product, quantity)
              w == update_product(s.file, updated, FaultAt(fault, i))
          IN
          IF w.raised
          THEN [s EXCEPT !.exit = "raise",
                         !.file = w.file,
                         !.log = Append(s.log, LogSaveError("products"))]
          ELSE create_bill_loop(items_purchased, i + 1,
                 [s EXCEPT !.products = [s.products EXCEPT ![product_id] = updated],
                           !.bill_items = Append(s.bill_items, bill_item),
                           !.subtotal = s.subtotal + item_total,
                           !.total_tax = s.total_tax + tax_amount,
                           !.file = w.file],
                 fault)

\* What one create_bill call does: the two files afterwards, what the caller
\* gets ("Bill" with the bill, "None", or "raise"), and what was logged.
create_bill(pfile, bfile, customer_info, items_purchased, bill_id, now, fault) ==
    LET customer == Customer(Get(customer_info, "name", ""),
                             Get(customer_info, "phone", ""),
                             Get(customer_info, "email", None))
        s == create_bill_loop(items_purchased, 1,
                 [products |-> load_products(pfile), bill_items |-> <<>>,
                  subtotal |-> 0, total_tax |-> 0, file |-> pfile,
                  log |-> <<>>, exit |-> "running"],
                 fault)
        total_amount == total_amount_of(s.subtotal, s.total_tax)
        bill == Bill(bill_id, customer, s.bill_items, s.subtotal, s.total_tax,
                     total_amount, now, "completed")
        w == add_bill(bfile, bill, FaultAt(fault, Len(items_purchased) + 1))
    IN
    CASE s.exit = "return None" ->
           [products_file |-> s.file, bills_file |-> bfile,
            ret |-> [kind |-> "None"], log |-> s.log]
      [] s.exit = "raise" ->
           [products_file |-> s.file, bills_file |-> bfile,
            ret |-> [kind |-> "raise"], log |-> Append(s.log, LogCreateError)]
      [] OTHER ->
           IF w.raised
           THEN [products_file |-> s.file, bills_file |-> w.file,
                 ret |-> [kind |-> "raise"],
                 log |-> s.log \o <<LogSaveError("bills"), LogCreateError>>]
           ELSE [products_file |-> s.file, bills_file |-> w.file,
                 ret |-> [kind |-> "Bill", bill |-> bill],
                 log |-> Append(s.log, LogCreated(bill))]

-----------------------------------------------------------------------------
(* The state machine *)

\* The catalog at start: two of the default products of
\* initialize_default_products, with small stocks.
InitialProducts(q) ==
    [pid \in ProductIds |->
        IF pid = "gro001"
        THEN Product("gro001", "Rice 1kg", "Grocery", 300, q[pid], 30, 5)
        ELSE Product("cld001", "Coca Cola 500ml", "Cold Drinks", 250, q[pid], 40, 10)]

NoFault == [at |-> 0, how |-> "none"]

NoCall == [op |-> "none"]

NoReturn == [kind |-> "none"]

\* every product starts fully stocked
InitialQty == [pid \in ProductIds |-> MaxQty]

Init ==
    /\ products_file =
          OkFile([pid \in ProductIds |->
                    Product_to_dict(InitialProducts(InitialQty)[pid])])
    /\ bills_file = AbsentFile
    /\ call = NoCall
    /\ ret = NoReturn
    /\ log = <<>>

\* No product's stock above the cap of the model.
WithinCap(file) ==
    \A pid \in DOMAIN load_products(file) : load_products(file)[pid].quantity <= MaxQty

\* One call of BillingService.create_bill, made when no call is pending.
\* call keeps the arguments and the files as they were before the call.
CreateBillCall(customer_info, items_purchased, bill_id, now, fault) ==
    LET r == create_bill(products_file, bills_file, customer_info,
                         items_purchased, bill_id, now, fault)
    IN  /\ call = NoCall
        /\ Len(load_bills(bills_file)) < MaxBills
        /\ WithinCap(r.products_file)
        /\ products_file' = r.products_file
        /\ bills_file' = r.bills_file
        /\ ret' = r.ret
        /\ log' = r.log
        /\ call' = [op |-> "create_bill", customer_info |-> customer_info,
                    items_purchased |-> items_purchased,
                    fault |-> fault,
                    products_before |-> products_file,
                    bills_before |-> bills_file]

\* create_bill with every write succeeding
CreateBill ==
    \E customer_info \in CustomerInfos,
       items_purchased \in ItemsPurchased, bill_id \in BillIds, now \in Datetimes :
        CreateBillCall(customer_info, items_purchased, bill_id, now, NoFault)

\* create_bill with any quantities, zero and negative included
CreateBillAnyQty ==
    \E customer_info \in CustomerInfos,
       items_purchased \in AnyItemsPurchased, bill_id \in BillIds, now \in Datetimes :
        CreateBillCall(customer_info, items_purchased, bill_id, now, NoFault)

\* The faults a call with these items can meet: none, or one of its writes
\* (one per entry, then the bill) failing in one of the two ways.
WriteFaultChoices(items_purchased) ==
    {NoFault} \cup
    { [at |-> at, how |-> how] :
        at \in 1..(Len(items_purchased) + 1), how \in WriteFaults }

\* create_bill for single units, with or without one of its writes failing
CreateBillIO ==
    \E customer_info \in CustomerInfos,
       items_purchased \in UnitItemsPurchased, bill_id \in BillIds, now \in Datetimes :
        \E fault \in WriteFaultChoices(items_purchased) :
            CreateBillCall(customer_info, items_purchased, bill_id, now, fault)

\* The caller has taken the result (or the exception) of the call; the
\* files stay as the call left them.
CallerContinues ==
    /\ call # NoCall
    /\ call' = NoCall
    /\ ret' = NoReturn
    /\ log' = <<>>
    /\ UNCHANGED <<products_file, bills_file>>

Next == CreateBill \/ CallerContinues

Spec == Init /\ [][Next]_vars

NextIO == CreateBillIO \/ CallerContinues

SpecIO == Init /\ [][NextIO]_vars

NextAnyQty == CreateBillAnyQty \/ CallerContinues

SpecAnyQty == Init /\ [][NextAnyQty]_vars

-----------------------------------------------------------------------------
(* Catalog management and reads *)

\* the default products of the model
DefaultProducts == InitialProducts(InitialQty)

\* A product as catalog management may change it: another price, tax rate,
\* name or minimum stock level.  The prices and rates are such that the tax
\* of a line is a whole number of cents.
Repriced(p) == [p EXCEPT !.price = p.price + 100]

Retaxed(p) == [p EXCEPT !.tax_rate = p.tax_rate + 10]

Renamed(p) == [p EXCEPT !.name = "Renamed"]

Relevelled(p) == [p EXCEPT !.min_stock_level = 1]

\* the records handed to add_product and update_product: a default product
\* or one change of it, with any stock up to the cap
Restocked(labels) ==
    { [p EXCEPT !.quantity = q] : p \in labels, q \in 0..MaxQty }

EditedProducts ==
    Restocked(UNION { {p, Repriced(p), Retaxed(p), Renamed(p), Relevelled(p)} :
                        p \in { DefaultProducts[pid] : pid \in ProductIds } })

\* what a catalog operation leaves in call: its argument and the files
\* as they were before it
CatalogCall(op, arg) ==
    [op |-> op, arg |-> arg, products_before |-> products_file,
     bills_before |-> bills_file]

\* add_product storing the new product in place of the catalog
AddProductCall_replacing(product) ==
    LET w == save_products(products_file, (product.id :> product), "none")
    IN  /\ call = NoCall
        /\ products_file' = w.file
        /\ call' = CatalogCall("add_product", product)
        /\ ret' = [kind |-> "None"]
        /\ log' = <<>>
        /\ UNCHANGED bills_file

AddProductCall(product) ==
    LET w == add_product(products_file, product, "none")
    IN  /\ call = NoCall
        /\ products_file' = w.file
        /\ call' = CatalogCall("add_product", product)
        /\ ret' = [kind |-> "None"]
        /\ log' = <<>>
        /\ UNCHANGED bills_file

UpdateProductCall(product) ==
    LET w == update_product(products_file, product, "none")
    IN  /\ call = NoCall
        /\ products_file' = w.file
        /\ call' = CatalogCall("update_product", product)
        /\ ret' = [kind |-> "None"]
        /\ log' = <<>>
        /\ UNCHANGED bills_file

\* delete_product also dropping the stored bills that name the product
DeleteProductCall_cascading(product_id) ==
    LET w == delete_product(products_file, product_id, "none")
        bills == load_bills(bills_file)
        kept == SelectSeq(bills, LAMBDA b :
                    \A i \in 1..Len(b.items) : b.items[i].product_id # product_id)
    IN  /\ call = NoCall
        /\ products_file' = w.file
        /\ call' = CatalogCall("delete_product", product_id)
        /\ ret' = [kind |-> "None"]
        /\ log' = <<>>
        /\ bills_file' = IF kept = bills THEN bills_file
                         ELSE save_bills(bills_file, kept, "none").file

DeleteProductCall(product_id) ==
    LET w == delete_product(products_file, product_id, "none")
    IN  /\ call = NoCall
        /\ products_file' = w.file
        /\ call' = CatalogCall("delete_product", product_id)
        /\ ret' = [kind |-> "None"]
        /\ log' = <<>>
        /\ UNCHANGED bills_file

AddProduct == \E product \in EditedProducts : AddProductCall(product)

UpdateProduct == \E product \in EditedProducts : UpdateProductCall(product)

DeleteProduct ==
    \E product_id \in ProductIds \cup UnknownIds : DeleteProductCall(product_id)

\* the operations that only read the catalog
ReadOps == {"load_products", "get_all_products", "get_product_by_id"}

\* A read may follow a read at once; it leaves in call what the read
\* before it was and returned.
ReadCall(op, arg) ==
    [op |-> op, arg |-> arg, products_before |-> products_file,
     bills_before |-> bills_file, previous |-> [op |-> call.op, ret |-> ret]]

\* get_product_by_id taking the product out of the stored catalog
GetProductByIdCall_popping(product_id) ==
    /\ call.op \in {"none"} \cup ReadOps
    /\ call' = ReadCall("get_product_by_id", product_id)
    /\ ret' = get_product_by_id(products_file, product_id)
    /\ log' = load_log(products_file, "products")
    /\ products_file' = delete_product(products_file, product_id, "none").file
    /\ UNCHANGED bills_file

GetProductByIdCall(product_id) ==
    /\ call.op \in {"none"} \cup ReadOps
    /\ call' = ReadCall("get_product_by_id", product_id)
    /\ ret' = get_product_by_id(products_file, product_id)
    /\ log' = load_log(products_file, "products")
    /\ UNCHANGED <<products_file, bills_file>>

\* load_products creating the store when it is not there
LoadProductsCall_creating ==
    /\ call.op \in {"none"} \cup ReadOps
    /\ call' = ReadCall("load_products", None)
    /\ ret' = [kind |-> "dict", value |-> load_products(products_file)]
    /\ log' = load_log(products_file, "products")
    /\ products_file' = IF products_file.st = "absent" THEN OkFile(EmptyDict)
                        ELSE products_file
    /\ UNCHANGED bills_file

LoadProductsCall ==
    /\ call.op \in {"none"} \cup ReadOps
    /\ call' = ReadCall("load_products", None)
    /\ ret' = [kind |-> "dict", value |-> load_products(products_file)]
    /\ log' = load_log(products_file, "products")
    /\ UNCHANGED <<products_file, bills_file>>

GetAllProductsCall ==
    /\ call.op \in {"none"} \cup ReadOps
    /\ call' = ReadCall("get_all_products", None)
    /\ ret' = [kind |-> "list", value |-> get_all_products(products_file)]
    /\ log' = load_log(products_file, "products")
    /\ UNCHANGED <<products_file, bills_file>>

GetProductById ==
    \E product_id \in ProductIds \cup UnknownIds : GetProductByIdCall(product_id)

GetLowStockAlertsCall ==
    /\ call = NoCall
    /\ call' = CatalogCall("get_low_stock_alerts", None)
    /\ ret' = [kind |-> "list", value |-> get_low_stock_alerts(products_file)]
    /\ log' = <<>>
    /\ UNCHANGED <<products_file, bills_file>>

CheckStockLevelsCall ==
    /\ call = NoCall
    /\ call' = CatalogCall("check_stock_levels", None)
    /\ ret' = [kind |-> "dict", value |-> check_stock_levels(products_file)]
    /\ log' = <<>>
    /\ UNCHANGED <<products_file, bills_file>>

LoadBillsCall ==
    /\ call = NoCall
    /\ call' = CatalogCall("load_bills", None)
    /\ ret' = [kind |-> "list", value |-> load_bills(bills_file)]
    /\ log' = load_log(bills_file, "bills")
    /\ UNCHANGED <<products_file, bills_file>>

NextCatalog ==
    \/ AddProduct
    \/ UpdateProduct
    \/ DeleteProduct
    \/ LoadProductsCall
    \/ GetAllProductsCall
    \/ GetProductById
    \/ GetLowStockAlertsCall
    \/ CheckStockLevelsCall
    \/ CallerContinues

SpecCatalog == Init /\ [][NextCatalog]_vars

\* Sales and catalog management on the same store: a first sale, and
\* products changed in price, tax rate, name or stock, or deleted.
FirstSale ==
    /\ bills_file = AbsentFile
    /\ \E customer_info \in CustomerInfos, items_purchased \in UnitItemsPurchased,
          bill_id \in BillIds, now \in Datetimes :
           CreateBillCall(customer_info, items_purchased, bill_id, now, NoFault)

\* a default product with another price, tax rate or name at full stock, or
\* as it is with any stock
RelabelledProducts ==
    LET defaults == { DefaultProducts[pid] : pid \in ProductIds }
    IN  UNION { {Repriced(p), Retaxed(p), Renamed(p)} : p \in defaults }
           \cup Restocked(defaults)

RelabelProduct == \E product \in RelabelledProducts : UpdateProductCall(product)

AddRelabelled == \E product \in RelabelledProducts : AddProductCall(product)

NextSnapshot ==
    \/ FirstSale
    \/ AddRelabelled
    \/ RelabelProduct
    \/ DeleteProduct
    \/ CallerContinues

SpecSnapshot == Init /\ [][NextSnapshot]_vars

\* Products relabelled before the first bill is stored, then a sale of any
\* positive quantities.
RelabelBeforeSales ==
    /\ bills_file = AbsentFile
    /\ \E product \in RelabelledProducts :
          product.quantity = MaxQty /\ UpdateProductCall(product)

OpeningSale == bills_file = AbsentFile /\ CreateBill

NextPrices == RelabelBeforeSales \/ OpeningSale \/ CallerContinues

SpecPrices == Init /\ [][NextPrices]_vars

\* A first sale to any of several customers, with or without an email.
SeveralCustomerInfos ==
    CustomerInfos \cup
    { [name |-> "B", phone |-> "5551111", email |-> "b@example.com"] }

SaleToAnyCustomer ==
    /\ bills_file = AbsentFile
    /\ \E customer_info \in SeveralCustomerInfos, items_purchased \in ItemsPurchased,
          bill_id \in BillIds, now \in Datetimes :
           CreateBillCall(customer_info, items_purchased, bill_id, now, NoFault)

NextCustomers == SaleToAnyCustomer \/ CallerContinues

SpecCustomers == Init /\ [][NextCustomers]_vars

-----------------------------------------------------------------------------
(* billing_service.py: BillingService.get_daily_sales_summary.  A datetime  *)
(* with a time of day is <<year, month, day, hour>>.                        *)

\* datetime.date() keeping the time of day
date_with_time(dt) == dt

\* datetime.date()
date(dt) == <<dt[1], dt[2], dt[3]>>

RECURSIVE gcd(_, _)
gcd(a, b) == IF b = 0 THEN a ELSE gcd(b, a % b)

\* a / b for b > 0 and a >= 0: the exact quotient, as a fraction in lowest terms
true_division(a, b) == [num |-> a \div gcd(a, b), den |-> b \div gcd(a, b)]

\* the literal 0 as a quotient
Zero == [num |-> 0, den |-> 1]

RECURSIVE sum(_)
\* sum() of a list of numbers
sum(numbers) == IF numbers = <<>> THEN 0 ELSE Head(numbers) + sum(Tail(numbers))

get_daily_sales_summary(file, day) ==
    LET bills == load_bills(file)
        daily_bills == SelectSeq(bills, LAMBDA bill : date(bill.created_at) = date(day))
        total_sales == sum([i \in 1..Len(daily_bills) |-> daily_bills[i].total_amount])
        total_bills == Len(daily_bills)
        total_items == sum([i \in 1..Len(daily_bills) |-> Len(daily_bills[i].items)])
    IN  [date |-> isoformat(date(day)),
         total_sales |-> total_sales,
         total_bills |-> total_bills,
         total_items |-> total_items,
         average_bill_value |-> IF total_bills > 0
                                THEN true_division(total_sales, total_bills)
                                ELSE Zero]

\* when bills are made: in the morning of the first and of the second day
SaleDatetimes == {<<2025, 1, 1, 9>>, <<2025, 1, 2, 9>>}

\* when summaries are asked for: in the afternoon of those days and of a
\* third one
SummaryDatetimes == {<<2025, 1, 1, 17>>, <<2025, 1, 2, 17>>, <<2025, 1, 3, 17>>}

\* requests of one unit of one product of the catalog
OneUnitPurchases == { <<entry>> : entry \in ProductIds \X {1} }

SaleOnSomeDay ==
    \E customer_info \in CustomerInfos, items_purchased \in OneUnitPurchases,
       bill_id \in BillIds, now \in SaleDatetimes :
        CreateBillCall(customer_info, items_purchased, bill_id, now, NoFault)

GetDailySalesSummaryCall(day) ==
    /\ call = NoCall
    /\ call' = [op |-> "get_daily_sales_summary", arg |-> day,
                products_before |-> products_file, bills_before |-> bills_file]
    /\ ret' = [kind |-> "dict", value |-> get_daily_sales_summary(bills_file, day)]
    /\ log' = <<>>
    /\ UNCHANGED <<products_file, bills_file>>

GetDailySalesSummary == \E day \in SummaryDatetimes : GetDailySalesSummaryCall(day)

NextDaily == SaleOnSomeDay \/ GetDailySalesSummary \/ CallerContinues

SpecDaily == Init /\ [][NextDaily]_vars

-----------------------------------------------------------------------------
(* Two create_bill calls at once on the same files.  A step of a call runs  *)
(* up to and including its next read or write of a file; nothing keeps the  *)
(* steps of the two calls apart.                                            *)

\* the two callers
Procs == {1, 2}

\* requests of one entry for a product of the catalog
SingleItemsPurchased == { <<entry>> : entry \in ProductIds \X PositiveQtys }

\* The locals of a call about to run line 25.  snapshot keeps what line 31
\* read; all_products is the same dict as the loop changes it; products and
\* bills are the locals of update_product and add_bill.
NewLocals(customer_info, items_purchased, bill_id, now) ==
    [pc |-> "start", customer_info |-> customer_info,
     items_purchased |-> items_purchased, bill_id |-> bill_id, now |-> now,
     snapshot |-> EmptyDict, all_products |-> EmptyDict, i |-> 1,
     bill_items |-> <<>>, subtotal |-> 0, total_tax |-> 0,
     products |-> EmptyDict, bills |-> <<>>]

\* call p is at step pc
At(p, pc) == call.op = "create_bill_twice" /\ call.locals[p].pc = pc

\* Two calls are made when no call is pending and no bill is stored yet.
BeginTwoCalls ==
    /\ call = NoCall
    /\ bills_file = AbsentFile
    /\ \E customer_info \in CustomerInfos, now \in Datetimes,
          items \in [Procs -> SingleItemsPurchased], bill_id \in [Procs -> BillIds] :
           call' = [op |-> "create_bill_twice",
                    locals |-> [p \in Procs |->
                                  NewLocals(customer_info, items[p], bill_id[p], now)],
                    products_before |-> products_file,
                    bills_before |-> bills_file]
    /\ ret' = [kind |-> "two", of |-> [p \in Procs |-> NoReturn]]
    /\ log' = <<>>
    /\ UNCHANGED <<products_file, bills_file>>

\* lines 25-31: the snapshot of the catalog is read
StartStep(p) ==
    /\ At(p, "start")
    /\ call' = [call EXCEPT !.locals[p].pc = "entry",
                            !.locals[p].snapshot = load_products(products_file),
                            !.locals[p].all_products = load_products(products_file)]
    /\ UNCHANGED <<products_file, bills_file, ret, log>>

\* the loop working on a product it reads again from the store
loop_product_reloaded(all_products, file, product_id) ==
    load_products(file)[product_id]

\* line 41: the loop works on the product object of its snapshot, whatever
\* the store holds by now
loop_product(all_products, file, product_id) == all_products[product_id]

\* the return of call p
Returns(p, value, record) ==
    /\ ret' = [ret EXCEPT !.of[p] = value]
    /\ log' = Append(log, record)

\* Lines 36-64 for entry i and the read of update_product (database.py 59-60);
\* after the last entry, lines 67-78 and the read of add_bill (database.py 104).
EntryStep(p) ==
    LET L == call.locals[p] IN
    /\ At(p, "entry")
    /\ UNCHANGED <<products_file, bills_file>>
    /\ IF L.i > Len(L.items_purchased)
       THEN /\ call' = [call EXCEPT !.locals[p].pc = "save_bill",
                                    !.locals[p].bills = load_bills(bills_file)]
            /\ UNCHANGED <<ret, log>>
       ELSE
         LET product_id == L.items_purchased[L.i][1]
             quantity == L.items_purchased[L.i][2]
         IN
         IF product_missing(L.all_products, product_id)
         THEN /\ call' = [call EXCEPT !.locals[p].pc = "done"]
              /\ Returns(p, [kind |-> "None"], LogNotFound(product_id))
         ELSE
           LET product == loop_product(L.all_products, products_file, product_id) IN
           IF insufficient_stock(product, quantity)
           THEN /\ call' = [call EXCEPT !.locals[p].pc = "done"]
                /\ Returns(p, [kind |-> "None"], LogInsufficient(product))
           ELSE
             LET unit_price == product.price
                 item_total == item_total_of(unit_price, quantity)
                 tax_amount == item_tax_of(item_total, product.tax_rate)
                 bill_item == BillItem(product_id, product.name, quantity,
                                       unit_price, item_total, tax_amount)
                 updated == decrement(product, quantity)
             IN
             /\ call' = [call EXCEPT
                   !.locals[p].pc = "save",
                   !.locals[p].all_products =
                        [L.all_products EXCEPT ![product_id] = updated],
                   !.locals[p].bill_items = Append(L.bill_items, bill_item),
                   !.locals[p].subtotal = L.subtotal + item_total,
                   !.locals[p].total_tax = L.total_tax + tax_amount,
                   !.locals[p].products =
                        (updated.id :> updated) @@ load_products(products_file)]
             /\ UNCHANGED <<ret, log>>

\* the write of update_product (database.py 61), then the next entry
SaveStep(p) ==
    LET L == call.locals[p]
        w == save_products(products_file, L.products, "none")
    IN  /\ At(p, "save")
        /\ products_file' = w.file
        /\ call' = [call EXCEPT !.locals[p].pc = "entry", !.locals[p].i = L.i + 1]
        /\ UNCHANGED <<bills_file, ret, log>>

\* the write of add_bill (database.py 105-106), then lines 83-84
SaveBillStep(p) ==
    LET L == call.locals[p]
        customer == Customer(Get(L.customer_info, "name", ""),
                             Get(L.customer_info, "phone", ""),
                             Get(L.customer_info, "email", None))
        bill == Bill(L.bill_id, customer, L.bill_items, L.subtotal, L.total_tax,
                     total_amount_of(L.subtotal, L.total_tax), L.now, "completed")
        w == save_bills(bills_file, Append(L.bills, bill), "none")
    IN  /\ At(p, "save_bill")
        /\ bills_file' = w.file
        /\ call' = [call EXCEPT !.locals[p].pc = "done"]
        /\ Returns(p, [kind |-> "Bill", bill |-> bill], LogCreated(bill))
        /\ UNCHANGED products_file

\* both callers have their results
CallersContinue ==
    /\ \A p \in Procs : At(p, "done")
    /\ call' = NoCall
    /\ ret' = NoReturn
    /\ log' = <<>>
    /\ UNCHANGED <<products_file, bills_file>>

NextTwoCalls ==
    \/ BeginTwoCalls
    \/ \E p \in Procs : StartStep(p) \/ EntryStep(p) \/ SaveStep(p) \/ SaveBillStep(p)
    \/ CallersContinue

SpecTwoCalls == Init /\ [][NextTwoCalls]_vars

\* customer_info dicts with the name or the phone left out, empty or blank
BadCustomerInfos ==
    { [phone |-> "5550000"],
      [name |-> "", phone |-> "5550000"],
      [name |-> " ", phone |-> "5550000"],
      [name |-> "A"],
      [name |-> "A", phone |-> ""] }

\* A first sale to a customer whose data may be incomplete.
SaleToAnyone ==
    /\ bills_file = AbsentFile
    /\ \E customer_info \in CustomerInfos \cup BadCustomerInfos,
          items_purchased \in UnitItemsPurchased,
          bill_id \in BillIds, now \in Datetimes :
           CreateBillCall(customer_info, items_purchased, bill_id, now, NoFault)

NextAnyone == SaleToAnyone \/ CallerContinues

SpecAnyone == Init /\ [][NextAnyone]_vars

-----------------------------------------------------------------------------
(* api.py: POST /bills and POST /inventory/check-alerts *)

\* BillCreate.items: a list of (product_id, quantity) entries, in which an
\* identifier may stand more than once
BillCreateItems ==
    UNION { [1..n -> (ProductIds \X PositiveQtys) \cup (UnknownIds \X {1})] :
              n \in 0..MaxItems }

\* d[key] = value on a dict kept as a sequence of pairs: a key that is there
\* keeps its place and takes the new value, a new key goes to the end
setitem(d, key, value) ==
    IF \E i \in 1..Len(d) : d[i][1] = key
    THEN [i \in 1..Len(d) |-> IF d[i][1] = key THEN <<key, value>> ELSE d[i]]
    ELSE Append(d, <<key, value>>)

\* {item.product_id: item.quantity for item in bill_data.items} (line 257)
RECURSIVE items_purchased_of(_, _)
items_purchased_of(items, d) ==
    IF items = <<>> THEN d
    ELSE items_purchased_of(Tail(items), setitem(d, items[1][1], items[1][2]))

\* The handler of POST /bills.  created is what create_bill returned.  The
\* HTTPException(400) of line 263 is raised inside the try block, so the
\* `except Exception` of line 270 catches it as it catches what create_bill
\* raises, and raises HTTPException(500) with the text of what it caught.
post_bills(pfile, bfile, customer, items, bill_id, now, fault) ==
    LET customer_info == [name |-> customer.name, phone |-> customer.phone,
                          email |-> Get(customer, "email", None)]
        items_purchased == items_purchased_of(items, <<>>)
        r == create_bill(pfile, bfile, customer_info, items_purchased,
                         bill_id, now, fault)
        e == IF r.ret.kind = "None"
             THEN [raised |-> "HTTPException", status_code |-> 400,
                   detail |-> "Failed to create bill"]
             ELSE [raised |-> "Exception", status_code |-> 0,
                   detail |-> "create_bill"]
    IN  [products_file |-> r.products_file, bills_file |-> r.bills_file,
         items_purchased |-> items_purchased, created |-> r.ret,
         ret |-> IF r.ret.kind = "Bill"
                 THEN [kind |-> "response", status_code |-> 200,
                       body |-> [message |-> "Bill created successfully",
                                 bill_id |-> r.ret.bill.id,
                                 total_amount |-> r.ret.bill.total_amount]]
                 ELSE [kind |-> "HTTPException",
                       status_code |-> 500,
                       detail |-> e],
         log |-> IF r.ret.kind = "Bill" THEN r.log
                 ELSE Append(r.log, [level |-> "error",
                                     text |-> "Error creating bill", e |-> e])]

\* One request POST /bills, the first sale of the shop.
PostBillsCall(customer, items, bill_id, now, fault) ==
    /\ call = NoCall
    /\ bills_file = AbsentFile
    /\ \E r \in {post_bills(products_file, bills_file, customer, items,
                            bill_id, now, fault)} :
        /\ WithinCap(r.products_file)
        /\ products_file' = r.products_file
        /\ bills_file' = r.bills_file
        /\ ret' = r.ret
        /\ log' = r.log
        /\ call' = [op |-> "post_bills", customer |-> customer, items |-> items,
                    items_purchased |-> r.items_purchased, fault |-> fault,
                    created |-> r.created,
                    products_before |-> products_file,
                    bills_before |-> bills_file]

\* the write of the bill failing, or no write failing
BillWriteFaults(items) ==
    {NoFault, [at |-> Len(items_purchased_of(items, <<>>)) + 1, how |-> "open"]}

PostBills ==
    \E customer \in CustomerInfos, items \in BillCreateItems,
       bill_id \in BillIds, now \in Datetimes :
        \E fault \in BillWriteFaults(items) :
            PostBillsCall(customer, items, bill_id, now, fault)

\* len() and truth value of a dict
len(d) == Cardinality(DOMAIN d)

bool(d) == len(d) > 0

\* The handler of POST /inventory/check-alerts: the response and the
\* background tasks it has added.  alerts is the dict of check_stock_levels,
\* with its three categories as keys.
post_inventory_check_alerts(file) ==
    LET alerts == check_stock_levels(file)
    IN  [kind |-> "response", status_code |-> 200,
         body |-> [message |-> "Checked low stock items",
                   alerts_processed |-> len(alerts)],
         background_tasks |->
            IF bool(alerts)
            THEN <<[task |-> "send_low_stock_alerts", alerts |-> alerts]>>
            ELSE <<>>]

PostCheckAlertsCall ==
    /\ call = NoCall
    /\ call' = CatalogCall("post_inventory_check_alerts", None)
    /\ ret' = post_inventory_check_alerts(products_file)
    /\ log' = <<>>
    /\ UNCHANGED <<products_file, bills_file>>

\* the default products, with their minimum stock level or with one of 1,
\* at any stock
LevelledProducts ==
    LET defaults == { DefaultProducts[pid] : pid \in ProductIds }
    IN  Restocked(defaults \cup { Relevelled(p) : p \in defaults })

LevelProduct == \E product \in LevelledProducts : UpdateProductCall(product)

NextApi == PostBills \/ PostCheckAlertsCall \/ LevelProduct \/ CallerContinues

SpecApi == Init /\ [][NextApi]_vars

-----------------------------------------------------------------------------
(* The operations that set a quantity: inventory_service.py, database.py   *)
(* and PUT /products/{product_id} of api.py                                 *)

LogQuantityError == [level |-> "error", text |-> "Error updating product quantity"]

LogQuantityUpdated(product_id, new_quantity) ==
    [level |-> "info", text |-> "Updated quantity",
     product_id |-> product_id, new_quantity |-> new_quantity]

\* update_product_quantity of InventoryService without the test of line 41
InventoryService_update_product_quantity_unchecked(file, product_id, new_quantity) ==
    LET found == get_product_by_id(file, product_id)
    IN  IF found.kind = "Product"
        THEN [file |-> update_product(file,
                          [found.product EXCEPT !.quantity = new_quantity],
                          "none").file,
              ret |-> TRUE,
              log |-> <<LogQuantityUpdated(product_id, new_quantity)>>]
        ELSE [file |-> file, ret |-> FALSE, log |-> <<>>]

\* InventoryService.update_product_quantity: the ValueError of line 42 is
\* caught by the handler of line 51, which logs it and returns False.
InventoryService_update_product_quantity(file, product_id, new_quantity) ==
    IF new_quantity < 0
    THEN [file |-> file, ret |-> FALSE, log |-> <<LogQuantityError>>]
    ELSE LET found == get_product_by_id(file, product_id)
         IN  IF found.kind = "Product"
             THEN [file |-> update_product(file,
                               [found.product EXCEPT !.quantity = new_quantity],
                               "none").file,
                   ret |-> TRUE,
                   log |-> <<LogQuantityUpdated(product_id, new_quantity)>>]
             ELSE [file |-> file, ret |-> FALSE, log |-> <<>>]

\* InventoryService.add_stock
add_stock(file, product_id, quantity) ==
    LET found == get_product_by_id(file, product_id)
    IN  IF found.kind = "None"
        THEN [file |-> file, ret |-> FALSE,
              log |-> <<[level |-> "error", text |-> "Error adding stock"]>>]
        ELSE InventoryService_update_product_quantity(
                 file, product_id, found.product.quantity + quantity)

\* InventoryService.bulk_update_inventory, from entry i of updates on; s
\* holds the file as written so far, the results and the log
RECURSIVE bulk_update_inventory(_, _, _)
bulk_update_inventory(updates, i, s) ==
    IF i > Len(updates) THEN s
    ELSE LET u == InventoryService_update_product_quantity(
                      s.file, updates[i][1], updates[i][2])
         IN  bulk_update_inventory(updates, i + 1,
                 [file |-> u.file,
                  ret |-> setitem(s.ret, updates[i][1], u.ret),
                  log |-> s.log \o u.log])

\* DatabaseManager.update_product_quantity
DatabaseManager_update_product_quantity(file, product_id, new_quantity) ==
    LET products == load_products(file)
    IN  IF product_id \in DOMAIN products
        THEN [file |-> save_products(file,
                          [products EXCEPT ![product_id].quantity = new_quantity],
                          "none").file,
              ret |-> TRUE, log |-> <<>>]
        ELSE [file |-> file, ret |-> FALSE, log |-> <<>>]

\* The handler of PUT /products/{product_id}; product_update holds the
\* fields that are not None.
put_products(file, product_id, product_update) ==
    LET found == get_product_by_id(file, product_id)
    IN  IF found.kind = "None"
        THEN [file |-> file,
              ret |-> [kind |-> "HTTPException", status_code |-> 404,
                       detail |-> "Product not found"],
              log |-> <<>>]
        ELSE LET product ==
                   [f \in DOMAIN found.product |->
                       IF f \in DOMAIN product_update
                       THEN product_update[f] ELSE found.product[f]]
             IN  [file |-> update_product(file, product, "none").file,
                  ret |-> [kind |-> "response", status_code |-> 200,
                           message |-> "Product updated successfully"],
                  log |-> <<>>]

\* One call of an operation on the products file that answers with r.
QuantityCall(op, arg, r) ==
    /\ call = NoCall
    /\ WithinCap(r.file)
    /\ products_file' = r.file
    /\ call' = CatalogCall(op, arg)
    /\ ret' = r.ret
    /\ log' = r.log
    /\ UNCHANGED bills_file

UpdateProductQuantity ==
    \E product_id \in ProductIds \cup UnknownIds, new_quantity \in AnyQtys :
        QuantityCall("update_product_quantity",
            [product_id |-> product_id, new_quantity |-> new_quantity],
            InventoryService_update_product_quantity(
                products_file, product_id, new_quantity))

AddStock ==
    \E product_id \in ProductIds \cup UnknownIds, quantity \in AnyQtys :
        QuantityCall("add_stock",
            [product_id |-> product_id, quantity |-> quantity],
            add_stock(products_file, product_id, quantity))

\* the updates of a bulk update: a dict from identifiers to quantities
BulkUpdates == DictsOver((ProductIds \cup UnknownIds) \X AnyQtys)

BulkUpdateInventory ==
    \E updates \in BulkUpdates :
        QuantityCall("bulk_update_inventory", updates,
            bulk_update_inventory(updates, 1,
                [file |-> products_file, ret |-> <<>>, log |-> <<>>]))

DbUpdateProductQuantity ==
    \E product_id \in ProductIds \cup UnknownIds, new_quantity \in AnyQtys :
        QuantityCall("db_update_product_quantity",
            [product_id |-> product_id, new_quantity |-> new_quantity],
            DatabaseManager_update_product_quantity(
                products_file, product_id, new_quantity))

\* ProductUpdate bodies: a quantity, a minimum stock level, both or neither
ProductUpdates ==
    {EmptyDict, [min_stock_level |-> 1]}
       \cup { [quantity |-> q] : q \in AnyQtys }
       \cup { [quantity |-> q, min_stock_level |-> 1] : q \in AnyQtys }

PutProducts ==
    \E product_id \in ProductIds \cup UnknownIds, product_update \in ProductUpdates :
        QuantityCall("put_products",
            [product_id |-> product_id, product_update |-> product_update],
            put_products(products_file, product_id, product_update))

NextInventory ==
    \/ UpdateProductQuantity
    \/ AddStock
    \/ BulkUpdateInventory
    \/ DbUpdateProductQuantity
    \/ PutProducts
    \/ CallerContinues

SpecInventory == Init /\ [][NextInventory]_vars

-----------------------------------------------------------------------------
(* A store whose file is there and cannot be loaded *)

\* From now on loading the products file raises inside load_products; the
\* records stay on disk.
ProductsFileUnreadable ==
    /\ call = NoCall
    /\ products_file.st = "ok"
    /\ products_file' = UnreadableFile(products_file.data)
    /\ UNCHANGED <<bills_file, call, ret, log>>

\* The same for the bills file and load_bills.
BillsFileUnreadable ==
    /\ call = NoCall
    /\ bills_file.st = "ok"
    /\ bills_file' = UnreadableFile(bills_file.data)
    /\ UNCHANGED <<products_file, call, ret, log>>

\* a sale of one unit of one product
UnitSale ==
    \E customer_info \in CustomerInfos, items_purchased \in OneUnitPurchases,
       bill_id \in BillIds, now \in Datetimes :
        CreateBillCall(customer_info, items_purchased, bill_id, now, NoFault)

\* the default products with any stock
StockedProducts == Restocked({ DefaultProducts[pid] : pid \in ProductIds })

AddStocked == \E product \in StockedProducts : AddProductCall(product)

UpdateStocked == \E product \in StockedProducts : UpdateProductCall(product)

NextUnreadable ==
    \/ ProductsFileUnreadable
    \/ BillsFileUnreadable
    \/ UnitSale
    \/ AddStocked
    \/ UpdateStocked
    \/ CallerContinues

SpecUnreadable == Init /\ [][NextUnreadable]_vars

-----------------------------------------------------------------------------
(* A store just constructed: DatabaseManager.__init__ makes the data        *)
(* directory and neither file; the catalog is then filled product by        *)
(* product.                                                                 *)

InitFresh ==
    /\ products_file = AbsentFile
    /\ bills_file = AbsentFile
    /\ call = NoCall
    /\ ret = NoReturn
    /\ log = <<>>

NextFresh ==
    \/ LoadProductsCall
    \/ LoadBillsCall
    \/ AddProduct
    \/ DeleteProduct
    \/ CallerContinues

SpecFresh == InitFresh /\ [][NextFresh]_vars

-----------------------------------------------------------------------------
(* What the claims speak about *)

\* the persisted catalog and bill history, as the next reader gets them
catalog == load_products(products_file)

history == load_bills(bills_file)

\* a create_bill call has returned (or raised) and its result is in ret
Returned == call.op = "create_bill"

\* catalog and history as they were persisted before the pending call
catalog_before == load_products(call.products_before)

history_before == load_bills(call.bills_before)

\* entry i of the call fails validation against the pre-call catalog
UnknownEntry(i) == call.items_purchased[i][1] \notin DOMAIN catalog_before

OverStockEntry(i) ==
    /\ ~UnknownEntry(i)
    /\ call.items_purchased[i][2] >
          catalog_before[call.items_purchased[i][1]].quantity

FailingEntry(i) == UnknownEntry(i) \/ OverStockEntry(i)

Entries == 1..Len(call.items_purchased)

\* the first entry, in iteration order, that fails validation (0 if none)
FirstFailing ==
    IF \E i \in Entries : FailingEntry(i)
    THEN CHOOSE i \in Entries :
            FailingEntry(i) /\ \A j \in 1..(i - 1) : ~FailingEntry(j)
    ELSE 0

\* the quantity the call asks of product pid (0 if it does not name it)
Requested(pid) ==
    IF \E i \in Entries : call.items_purchased[i][1] = pid
    THEN call.items_purchased[CHOOSE i \in Entries :
                                 call.items_purchased[i][1] = pid][2]
    ELSE 0

QuantitiesUnchanged ==
    /\ DOMAIN catalog = DOMAIN catalog_before
    /\ \A pid \in DOMAIN catalog :
          catalog[pid].quantity = catalog_before[pid].quantity

RECURSIVE SumOver(_, _)
\* the sum of field f over the records of sequence seq
SumOver(seq, f) ==
    IF seq = <<>> THEN 0 ELSE seq[1][f] + SumOver(Tail(seq), f)

\* units of pid on the line items of one bill
UnitsOnBill(bill, pid) ==
    SumOver(SelectSeq(bill.items, LAMBDA it : it.product_id = pid), "quantity")

RECURSIVE UnitsSold(_, _)
\* units of pid on the line items of all bills of a sequence of bills
UnitsSold(bill_seq, pid) ==
    IF bill_seq = <<>> THEN 0
    ELSE UnitsOnBill(bill_seq[1], pid) + UnitsSold(Tail(bill_seq), pid)

-----------------------------------------------------------------------------
(* Claims *)

\* C1 (as stated): when a request of two or more entries has an entry that
\* fails validation, create_bill returns no Bill, bill history is as before
\* and every product's persisted quantity is as before the call.
C1_AllOrNothing ==
    (Returned /\ Len(call.items_purchased) >= 2 /\ FirstFailing # 0)
        => /\ ret.kind # "Bill"
           /\ bills_file = call.bills_before
           /\ QuantitiesUnchanged

\* C2: every product's persisted quantity on hand is >= 0 in every state
\* reachable by create_bill calls, accepted or rejected.
C2_QuantityNeverNegative ==
    \A pid \in DOMAIN catalog : catalog[pid].quantity >= 0

\* C2 witness: a sale has just taken a product's stock from above zero to
\* exactly zero.
C2_Witness ==
    /\ Returned
    /\ ret.kind = "Bill"
    /\ \E pid \in DOMAIN catalog :
          catalog[pid].quantity = 0 /\ catalog_before[pid].quantity > 0

\* C3 (as stated): for every product, initial quantity minus the persisted
\* quantity is the number of its units on the history of bill history.
C3_StockConservation ==
    \A pid \in ProductIds :
        pid \in DOMAIN catalog
        /\ InitialQty[pid] - catalog[pid].quantity = UnitsSold(history, pid)

\* C4: the returned Bill and every Bill of bill history have
\* total_amount = subtotal + tax_amount, subtotal = sum of the line items'
\* total_price and tax_amount = sum of the line items' tax_amount.
BillAddsUp(bill) ==
    /\ bill.total_amount = bill.subtotal + bill.tax_amount
    /\ bill.subtotal = SumOver(bill.items, "total_price")
    /\ bill.tax_amount = SumOver(bill.items, "tax_amount")

C4_BillTotalsAddUp ==
    /\ (Returned /\ ret.kind = "Bill") => BillAddsUp(ret.bill)
    /\ \A i \in 1..Len(history) : BillAddsUp(history[i])

\* C4 witness: a bill of two line items, with tax, was returned and stored.
C4_Witness ==
    /\ Returned
    /\ ret.kind = "Bill"
    /\ Len(ret.bill.items) = 2
    /\ ret.bill.tax_amount > 0
    /\ history[Len(history)] = ret.bill

\* C5: when create_bill succeeds, the persisted catalog is the pre-call
\* catalog with each requested product's quantity lowered by the requested
\* quantity; other products and all other fields are unchanged.
C5_SuccessDecrementsExactly ==
    (Returned /\ ret.kind = "Bill")
        => products_file =
             OkFile([pid \in DOMAIN call.products_before.data |->
                       [call.products_before.data[pid] EXCEPT
                          !.quantity = @ - Requested(pid)]])

\* C5 witness: a successful call that bought one product and not the other.
C5_Witness ==
    /\ Returned
    /\ ret.kind = "Bill"
    /\ \E p, q \in DOMAIN catalog : Requested(p) > 0 /\ Requested(q) = 0

\* the outcome records a caller can look at: the returned value and the log
Outcomes == {ret} \cup { log[i] : i \in 1..Len(log) }

FilesUnchanged ==
    /\ products_file = call.products_before
    /\ bills_file = call.bills_before

C8_NonPositiveQuantityRejected ==
    (Returned /\ \E i \in Entries : call.items_purchased[i][2] <= 0)
        => /\ ret.kind # "Bill"
           /\ FilesUnchanged

\* a write of the pending call was reached and failed
WriteFailed ==
    /\ Returned
    /\ call.fault.at >= 1
    /\ FirstFailing = 0 \/ FirstFailing > call.fault.at

\* C9: when a write of the catalog store or of the bill store fails during
\* create_bill, the call raises; it returns neither a Bill nor None.
C9_WriteFailureRaises == WriteFailed => ret = [kind |-> "raise"]

\* C9 witness: the catalog writes of a call succeeded and its write of the
\* bill store failed.
C9_Witness ==
    /\ WriteFailed
    /\ Len(call.items_purchased) >= 1
    /\ call.fault.at = Len(call.items_purchased) + 1

CatalogWrites == {"add_product", "update_product", "delete_product"}

\* the identifier such a call is about
Target == IF call.op = "delete_product" THEN call.arg ELSE call.arg.id

\* the bill has a line item of product pid
References(bill, pid) == \E i \in 1..Len(bill.items) : bill.items[i].product_id = pid

\* C11: after update_product or delete_product on a product, every bill that
\* was stored before the call and has a line item of that product is still
\* in bill history at its place, and reloading it gives the same line items,
\* subtotal, tax and total.
C11_SnapshotImmutable ==
    call.op \in {"update_product", "delete_product"}
    => \A i \in 1..Len(history_before) :
          References(history_before[i], Target)
          => /\ i <= Len(history)
             /\ history[i].id = history_before[i].id
             /\ history[i].items = history_before[i].items
             /\ history[i].subtotal = history_before[i].subtotal
             /\ history[i].tax_amount = history_before[i].tax_amount
             /\ history[i].total_amount = history_before[i].total_amount

\* a product was given another price after a bill with a line item of it
\* at the old price was stored
C11_Witness ==
    /\ call.op = "update_product"
    /\ \E i \in 1..Len(history) : \E j \in 1..Len(history[i].items) :
          /\ history[i].items[j].product_id = call.arg.id
          /\ history[i].items[j].unit_price # call.arg.price
          /\ catalog[call.arg.id].price = call.arg.price

\* C12: no two bills in bill history have the same identifier.
C12_BillIdsUnique ==
    \A i, j \in 1..Len(history) : i # j => history[i].id # history[j].id

\* C13: every line item of a returned bill has the name and unit price the
\* product had in the catalog as persisted before the call, its total_price
\* is that unit price times the requested quantity, and its tax_amount is
\* total_price times the tax rate the product had then (a rate in percent,
\* amounts in cents).  Scenario A: 10 units at 3.00 and 5 percent give
\* 30.00, 1.50 and 31.50.
C13_LineItemsFromSnapshot ==
    /\ (Returned /\ ret.kind = "Bill")
       => \A i \in 1..Len(ret.bill.items) :
             LET it == ret.bill.items[i]
                 p == catalog_before[it.product_id]
             IN  /\ it.product_name = p.name
                 /\ it.unit_price = p.price
                 /\ it.quantity = Requested(it.product_id)
                 /\ it.total_price = p.price * Requested(it.product_id)
                 /\ it.tax_amount * 100 = it.total_price * p.tax_rate
    /\ item_total_of(300, 10) = 3000
    /\ item_tax_of(3000, 5) = 150
    /\ total_amount_of(3000, 150) = 3150

\* a bill with a line of two units of a product whose price or tax rate
\* had been changed before the sale
C13_Witness ==
    /\ Returned
    /\ ret.kind = "Bill"
    /\ \E i \in 1..Len(ret.bill.items) :
          LET it == ret.bill.items[i]
          IN  /\ it.quantity = 2
              /\ \/ it.unit_price # DefaultProducts[it.product_id].price
                 \/ catalog_before[it.product_id].tax_rate
                        # DefaultProducts[it.product_id].tax_rate
              /\ it.tax_amount > 0

\* C14: a returned bill has status "completed", its customer has every
\* value the caller gave in customer_info, and its line items are the
\* entries of items_purchased, one for one and in the same order.
C14_BillShape ==
    (Returned /\ ret.kind = "Bill")
    => /\ ret.bill.status = "completed"
       /\ \A key \in DOMAIN call.customer_info :
             ret.bill.customer[key] = call.customer_info[key]
       /\ Len(ret.bill.items) = Len(call.items_purchased)
       /\ \A i \in 1..Len(call.items_purchased) :
             /\ ret.bill.items[i].product_id = call.items_purchased[i][1]
             /\ ret.bill.items[i].quantity = call.items_purchased[i][2]

\* a bill of two lines for the customer who gave an email, the second
\* product of the catalog asked first
C14_Witness ==
    /\ Returned
    /\ ret.kind = "Bill"
    /\ call.customer_info.name = "B"
    /\ ret.bill.customer.email = "b@example.com"
    /\ Len(ret.bill.items) = 2
    /\ ret.bill.items[1].product_id = "cld001"
    /\ ret.bill.items[2].product_id = "gro001"

\* both calls of a pair have returned
TwoReturned == call.op = "create_bill_twice" /\ \A p \in Procs : At(p, "done")

\* both calls returned a bill with units of product pid
BothBought(pid) ==
    \A p \in Procs :
        ret.of[p].kind = "Bill" /\ UnitsOnBill(ret.of[p].bill, pid) > 0

\* both calls read their snapshot before either wrote product pid
Overlapped(pid) ==
    \A p \in Procs :
        call.locals[p].snapshot[pid].quantity = catalog_before[pid].quantity

\* units of pid taken off the catalog, and units of pid on the bills stored,
\* since the pair of calls began
UnitsRemoved(pid) == catalog_before[pid].quantity - catalog[pid].quantity

UnitsBilled(pid) == UnitsSold(history, pid) - UnitsSold(history_before, pid)

\* C15: when two calls whose snapshots were both read before either wrote
\* have both returned a bill with units of the same product, the persisted
\* quantity of that product is the quantity before the calls less the units
\* of one call only, which is less than the units on the two returned bills.
C15_LostUpdate ==
    \A pid \in ProductIds :
        (TwoReturned /\ BothBought(pid) /\ Overlapped(pid))
        => /\ \E p \in Procs :
                 UnitsRemoved(pid) = UnitsOnBill(ret.of[p].bill, pid)
           /\ UnitsRemoved(pid) <
                 UnitsOnBill(ret.of[1].bill, pid) + UnitsOnBill(ret.of[2].bill, pid)

\* both calls succeeded, both bills are stored, and the stored bills sell
\* more units of a product than were removed from the catalog
C15_Witness ==
    /\ TwoReturned
    /\ Len(history) = Len(history_before) + 2
    /\ \E pid \in ProductIds :
          /\ BothBought(pid)
          /\ \A p \in Procs : \E i \in 1..Len(history) : history[i] = ret.of[p].bill
          /\ UnitsBilled(pid) > UnitsRemoved(pid)

\* two datetimes fall on the same calendar date
SameDay(a, b) == a[1] = b[1] /\ a[2] = b[2] /\ a[3] = b[3]

\* the places in bill history of the bills made on the day asked for
BillsOfTheDay == { i \in 1..Len(history) : SameDay(history[i].created_at, call.arg) }

RECURSIVE TotalOf(_)
\* the total amounts of the bills at the given places of bill history, added up
TotalOf(places) ==
    IF places = {} THEN 0
    ELSE LET i == CHOOSE i \in places : TRUE
         IN  history[i].total_amount + TotalOf(places \ {i})

\* C16: the summary of a day counts the stored bills created on that
\* calendar date, whatever their time of day, its total_sales is the sum of
\* their total amounts, and its average_bill_value times the count is
\* total_sales, or is 0 when the count is 0.
C16_DailySalesSummary ==
    call.op = "get_daily_sales_summary"
    => LET summary == ret.value
           average == summary.average_bill_value
       IN  /\ summary.total_bills = Cardinality(BillsOfTheDay)
           /\ summary.total_sales = TotalOf(BillsOfTheDay)
           /\ average.den > 0
           /\ IF BillsOfTheDay = {}
              THEN average.num = 0
              ELSE average.num * summary.total_bills
                     = summary.total_sales * average.den

\* a summary that counts one of two stored bills, the other being of
\* another day
C16_Witness ==
    /\ call.op = "get_daily_sales_summary"
    /\ Len(history) = 2
    /\ ret.value.total_bills = 1
    /\ ret.value.total_sales > 0
    /\ ret.value.average_bill_value.num = ret.value.total_sales

\* the alerts at the given places of a list that are about product pid
AlertsAbout(alerts, pid) == { i \in 1..Len(alerts) : alerts[i].product_id = pid }

\* C17: get_low_stock_alerts returns one alert for each product of the
\* catalog whose quantity is strictly below its min_stock_level and none for
\* any other product, and each alert has the quantity and min_stock_level
\* of its product.
C17_LowStockAlerts ==
    call.op = "get_low_stock_alerts"
    => LET alerts == ret.value IN
       /\ \A pid \in DOMAIN catalog :
             Cardinality(AlertsAbout(alerts, pid)) =
                IF catalog[pid].quantity < catalog[pid].min_stock_level THEN 1 ELSE 0
       /\ \A i \in 1..Len(alerts) :
             /\ alerts[i].product_id \in DOMAIN catalog
             /\ alerts[i].current_quantity = catalog[alerts[i].product_id].quantity
             /\ alerts[i].min_required =
                   catalog[alerts[i].product_id].min_stock_level

\* one product is exactly at its minimum level and gets no alert, while
\* another is below its level and gets one
C17_Witness ==
    /\ call.op = "get_low_stock_alerts"
    /\ Len(ret.value) = 1
    /\ \E pid \in DOMAIN catalog :
          /\ catalog[pid].quantity = catalog[pid].min_stock_level
          /\ catalog[pid].quantity > 0
          /\ AlertsAbout(ret.value, pid) = {}

\* the alerts an alert operation has returned
AlertsReturned ==
    IF call.op = "get_low_stock_alerts" THEN ret.value
    ELSE ret.value.critical \o ret.value.low \o ret.value.normal

Max(a, b) == IF a >= b THEN a ELSE b

\* C18: every alert returned by get_low_stock_alerts or check_stock_levels
\* suggests to order max(50, 2 * min_stock_level) units of its product.
C18_OneReorderRule ==
    call.op \in {"get_low_stock_alerts", "check_stock_levels"}
    => \A i \in 1..Len(AlertsReturned) :
          AlertsReturned[i].suggested_order_quantity =
             Max(50, 2 * AlertsReturned[i].min_required)

C21_AbsentStoreLoadsEmpty ==
    /\ (call.op = "load_products" /\ call.products_before = AbsentFile)
       => /\ ret.kind = "dict"
          /\ DOMAIN ret.value = {}
          /\ log = <<>>
          /\ products_file = AbsentFile
    /\ (call.op = "load_bills" /\ call.bills_before = AbsentFile)
       => /\ ret.kind = "list"
          /\ Len(ret.value) = 0
          /\ log = <<>>
          /\ bills_file = AbsentFile

\* the catalog is loaded before any product was added
C21_Witness ==
    /\ call.op = "load_products"
    /\ call.products_before = AbsentFile
    /\ products_file = AbsentFile
    /\ ret.kind = "dict"

\* every line item of every bill of bill_seq is of a product of all_products
Integrity(all_products, bill_seq) ==
    \A i \in 1..Len(bill_seq) : \A j \in 1..Len(bill_seq[i].items) :
        bill_seq[i].items[j].product_id \in DOMAIN all_products

Blank == {"", " "}

\* the customer_info of the call lacks a name or a phone
CustomerDataMissing ==
    \/ Get(call.customer_info, "name", "") \in Blank
    \/ Get(call.customer_info, "phone", "") \in Blank

\* C23: a create_bill call whose customer_info has no name or no phone, or
\* an empty one, produces no bill and leaves both files as they were.
C23_BadCustomerRejected ==
    (Returned /\ CustomerDataMissing)
    => /\ ret.kind # "Bill"
       /\ products_file = call.products_before
       /\ bills_file = call.bills_before

\* a request POST /bills has been answered
Answered == call.op = "post_bills"

\* C24: POST /bills answers with status 400 whenever create_bill returned no
\* bill, and with status 500 only when create_bill raised.
C24_NoBillIs400 ==
    Answered
    => /\ call.created.kind = "None"
             => (ret.kind = "HTTPException" /\ ret.status_code = 400)
       /\ ret.status_code = 500 => call.created.kind = "raise"

\* the products of the catalog that are low on stock
LowStockIds ==
    { pid \in DOMAIN catalog : is_low_stock(catalog[pid]) }

\* C25: POST /inventory/check-alerts reports as alerts_processed the number
\* of low-stock products, and adds the alert-sending task exactly when
\* there is at least one.
C25_AlertsCounted ==
    call.op = "post_inventory_check_alerts"
    => /\ ret.body.alerts_processed = Cardinality(LowStockIds)
       /\ (ret.background_tasks # <<>>) <=> (LowStockIds # {})

\* the units the items list of the request asks of product pid, over all
\* its entries
RequestedInAll(pid) ==
    LET entries == SelectSeq(call.items, LAMBDA item : item[1] = pid)
    IN  SumOver(entries, 2)

\* C30: POST /bills counts every entry of the items list: a product named
\* more than once is billed and decremented by the sum of its quantities,
\* and the request is refused when that sum exceeds the stock.
C30_EveryEntryCounted ==
    Answered
    => \A pid \in DOMAIN catalog_before :
          /\ ret.status_code = 200
                => /\ UnitsRemoved(pid) = RequestedInAll(pid)
                   /\ UnitsBilled(pid) = RequestedInAll(pid)
          /\ RequestedInAll(pid) > catalog_before[pid].quantity
                => ret.status_code # 200

\* InventoryService.update_product_quantity has returned
QuantitySet == call.op = "update_product_quantity"

\* C26: update_product_quantity(id, n) returns False and leaves the products
\* file as it was when n is negative or id is not in the catalog; otherwise
\* it returns True, the product id has quantity n and is otherwise as
\* before, and every other product is as before.
C26_UpdateProductQuantity ==
    QuantitySet
    => LET id == call.arg.product_id
           n == call.arg.new_quantity
       IN  IF n < 0 \/ id \notin DOMAIN catalog_before
           THEN ret = FALSE /\ products_file = call.products_before
           ELSE /\ ret = TRUE
                /\ DOMAIN catalog = DOMAIN catalog_before
                /\ \A pid \in DOMAIN catalog :
                      catalog[pid] =
                         IF pid = id
                         THEN [catalog_before[pid] EXCEPT !.quantity = n]
                         ELSE catalog_before[pid]

\* the three cases of C26 are met: here the accepted one, with a quantity
\* that differs from the one before and another product in the catalog
C26_Witness ==
    /\ QuantitySet
    /\ ret = TRUE
    /\ catalog[call.arg.product_id].quantity
          # catalog_before[call.arg.product_id].quantity
    /\ Cardinality(DOMAIN catalog) > 1

\* C27: no product of the catalog has a negative quantity, whichever of
\* update_product_quantity (of either class), add_stock,
\* bulk_update_inventory and PUT /products/{product_id} has run with
\* whatever integers.
C27_NoNegativeQuantity ==
    \A pid \in DOMAIN catalog : catalog[pid].quantity >= 0

\* C28: every bill of bill history has at least one line item, and a
\* create_bill call with no requested items returns no bill and stores none.
C28_NoEmptyBill ==
    /\ \A i \in 1..Len(history) : Len(history[i].items) >= 1
    /\ (Returned /\ call.items_purchased = <<>>)
          => (ret.kind = "None" /\ bills_file = call.bills_before)

\* the records a file held before the pending call are all in the file now
ProductRecordsKept ==
    \A pid \in DOMAIN call.products_before.data :
        products_file.st # "absent" /\ pid \in DOMAIN products_file.data

BillRecordsKept ==
    \A i \in DOMAIN call.bills_before.data :
        /\ bills_file.st # "absent"
        /\ \E j \in DOMAIN bills_file.data :
              bills_file.data[j] = call.bills_before.data[i]

\* C29: when update_product, add_product or create_bill has run on a
\* products file that is there and could not be loaded, the file still
\* holds every product record it held; when create_bill has run on such a
\* bills file, the file still holds every bill it held.
C29_UnreadableStoreKept ==
    /\ (/\ call.op \in {"update_product", "add_product", "create_bill"}
        /\ call.products_before.st = "unreadable")
       => ProductRecordsKept
    /\ (/\ call.op = "create_bill"
        /\ call.bills_before.st = "unreadable")
       => BillRecordsKept

=============================================================================
